---- MODULE Spec2Model ----
(***************************************************************************)
(* A model of repoze/catalog/query.py: the query algebra (comparators and  *)
(* the Union / Intersection / Difference operators), the chainable         *)
(* SearchQuery accumulator, the expression compiler's boolean nodes and    *)
(* the _group_any_and_all optimizer.                                       *)
(*                                                                         *)
(* Result sets are modelled by their document-id sets: the weights the     *)
(* BTrees IF sets carry are not modelled.                                  *)
(***************************************************************************)
EXTENDS Integers, Sequences, FiniteSets

\* ------------------------------------------------------------------------
\* Bounds
\* ------------------------------------------------------------------------

\* Largest number of comparators (leaves) in an enumerated query tree.
MaxLeaves == 3

\* Largest number of operands of a boolean syntax node.
MaxOperands == 3

\* ------------------------------------------------------------------------
\* Query nodes
\*   comparator: [kind, index_name, value]     operator: [kind, left, right]
\* ------------------------------------------------------------------------

ComparatorKinds ==
    {"Contains", "Eq", "NotEq", "Gt", "Lt", "Ge", "Le", "Any", "All"}

OperatorKinds == {"Union", "Intersection", "Difference"}

Comparator(kind, index_name, value) ==
    [kind |-> kind, index_name |-> index_name, value |-> value]

Operator(kind, left, right) ==
    [kind |-> kind, left |-> left, right |-> right]

Eq(index_name, value) == Comparator("Eq", index_name, value)

Gt(index_name, value) == Comparator("Gt", index_name, value)

Any(index_name, value) == Comparator("Any", index_name, value)

All(index_name, value) == Comparator("All", index_name, value)

Union(left, right) == Operator("Union", left, right)

Intersection(left, right) == Operator("Intersection", left, right)

Difference(left, right) == Operator("Difference", left, right)

isinstance_Operator(node) == node.kind \in OperatorKinds

isinstance_Comparator(node) == node.kind \in ComparatorKinds

isinstance_Query(x) == x.kind \in ComparatorKinds \cup OperatorKinds

\* All query trees with exactly n comparators, drawn from the set leaves.
RECURSIVE TreesWith(_, _)
TreesWith(n, leaves) ==
    IF n = 1
    THEN leaves
    ELSE UNION { { Operator(k, a, b) :
                     k \in OperatorKinds,
                     a \in TreesWith(m, leaves),
                     b \in TreesWith(n - m, leaves) } : m \in 1..(n - 1) }

TreesUpTo(n, leaves) == UNION { TreesWith(m, leaves) : m \in 1..n }

RECURSIVE LeafCount(_)
LeafCount(node) ==
    IF isinstance_Operator(node)
    THEN LeafCount(node.left) + LeafCount(node.right)
    ELSE 1

\* The positions of a tree: sequences of "left" / "right" steps from the root.
RECURSIVE Paths(_)
Paths(node) ==
    IF isinstance_Operator(node)
    THEN {<<>>} \cup { <<"left">> \o p : p \in Paths(node.left) }
                \cup { <<"right">> \o p : p \in Paths(node.right) }
    ELSE {<<>>}

RECURSIVE Subtree(_, _)
Subtree(node, path) ==
    IF path = <<>>
    THEN node
    ELSE Subtree(IF Head(path) = "left" THEN node.left ELSE node.right,
                 Tail(path))

IsPrefix(p, q) == Len(p) <= Len(q) /\ SubSeq(q, 1, Len(p)) = p

\* ------------------------------------------------------------------------
\* The catalog and its indexes (collaborators of query.py)
\* ------------------------------------------------------------------------

DocIds == {1, 2, 3, 4, 5}

IndexValues == {1, 2, 3, 4, 5}

\* An index maps a value to the documents that carry it.
IndexI ==
    [v \in IndexValues |->
        CASE v = 1 -> {1, 2, 3}
          [] v = 2 -> {2, 3, 4}
          [] v = 3 -> {5}
          [] v = 4 -> {3}
          [] OTHER -> {}]

IndexJ ==
    [v \in IndexValues |->
        CASE v = 1 -> {1, 5}
          [] OTHER -> {}]

\* A catalog maps the names of its indexes to them; "k" names no index.
Catalog == [n \in {"i", "j"} |-> IF n = "i" THEN IndexI ELSE IndexJ]

IndexI2 ==
    [v \in IndexValues |->
        CASE v = 1 -> {}
          [] v = 2 -> {4}
          [] v = 5 -> {2, 4, 5}
          [] OTHER -> {1}]

\* A second catalog: other documents, and "k" is an index of it.
Catalog2 == [n \in {"i", "k"} |-> IF n = "i" THEN IndexI2 ELSE IndexJ]

Catalogs == {Catalog, Catalog2}

NoExc == "None"

KeyError == "KeyError"

IndexDocs(index) == UNION { index[v] : v \in DOMAIN index }

ValueSet(values) == { values[n] : n \in 1..Len(values) }

\* index.applyEq(value), index.applyAny(values), ...: the matching documents.
Index_apply(index, kind, value) ==
    CASE kind \in {"Eq", "Contains"} ->
           IF value \in DOMAIN index THEN index[value] ELSE {}
      [] kind = "NotEq" ->
           IndexDocs(index) \ (IF value \in DOMAIN index THEN index[value] ELSE {})
      [] kind = "Gt" -> UNION { index[v] : v \in { w \in DOMAIN index : w > value } }
      [] kind = "Lt" -> UNION { index[v] : v \in { w \in DOMAIN index : w < value } }
      [] kind = "Ge" -> UNION { index[v] : v \in { w \in DOMAIN index : w >= value } }
      [] kind = "Le" -> UNION { index[v] : v \in { w \in DOMAIN index : w <= value } }
      [] kind = "Any" ->
           UNION { index[v] : v \in ValueSet(value) \cap DOMAIN index }
      [] kind = "All" ->
           { d \in IndexDocs(index) :
               \A v \in ValueSet(value) : v \in DOMAIN index /\ d \in index[v] }

\* family.IF.weightedUnion / weightedIntersection / difference / Set, on ids.
IF_weightedUnion(a, b) == a \cup b

IF_weightedIntersection(a, b) == a \cap b

IF_difference(a, b) == a \ b

IF_Set == {}

\* ------------------------------------------------------------------------
\* apply: the outcome of node.apply(catalog)
\*   exc : NoExc, or the exception that left the call
\*   ids : the document ids returned (empty when an exception left the call)
\*   log : the index lookups made, in order, each with the position of the
\*         comparator that made it
\* ------------------------------------------------------------------------

Returned(ids, log) == [exc |-> NoExc, ids |-> ids, log |-> log]

Raised(exc, log) == [exc |-> exc, ids |-> {}, log |-> log]

\* Mutant: a comparator answering an unknown index with the empty set.
Comparator_apply_unknown_is_empty(node, cat, path) ==
    LET lookup == <<[path |-> path, index_name |-> node.index_name]>>
    IN  IF node.index_name \in DOMAIN cat
        THEN Returned(Index_apply(cat[node.index_name], node.kind, node.value),
                      lookup)
        ELSE Returned(IF_Set, lookup)

\* Comparator.get_index followed by index.apply<Kind>(self.value).
Comparator_apply(node, cat, path) ==
    LET lookup == <<[path |-> path, index_name |-> node.index_name]>>
    IN  IF node.index_name \in DOMAIN cat
        THEN Returned(Index_apply(cat[node.index_name], node.kind, node.value),
                      lookup)
        ELSE Raised(KeyError, lookup)

\* In the three operators l is the outcome of self.left.apply(catalog) and r
\* the outcome self.right.apply(catalog) has if the code calls it; r's
\* lookups enter the log only where the code makes that call.
Union_apply(l, r) ==
    IF l.exc # NoExc THEN l
    ELSE IF r.exc # NoExc THEN Raised(r.exc, l.log \o r.log)
    ELSE Returned(IF_weightedUnion(l.ids, r.ids), l.log \o r.log)

\* Mutant: Intersection.apply evaluating its right operand unconditionally.
Intersection_apply_eager(l, r) ==
    IF l.exc # NoExc THEN l
    ELSE IF r.exc # NoExc THEN Raised(r.exc, l.log \o r.log)
    ELSE IF Cardinality(l.ids) = 0 \/ Cardinality(r.ids) = 0
    THEN Returned(IF_Set, l.log \o r.log)
    ELSE Returned(IF_weightedIntersection(l.ids, r.ids), l.log \o r.log)

Intersection_apply(l, r) ==
    IF l.exc # NoExc THEN l
    ELSE IF Cardinality(l.ids) = 0 THEN Returned(IF_Set, l.log)
    ELSE IF r.exc # NoExc THEN Raised(r.exc, l.log \o r.log)
    ELSE IF Cardinality(r.ids) = 0 THEN Returned(IF_Set, l.log \o r.log)
    ELSE Returned(IF_weightedIntersection(l.ids, r.ids), l.log \o r.log)

\* Mutant: Difference.apply answering an empty right operand as
\* Intersection.apply does, with the empty set.
Difference_apply_empty_right(l, r) ==
    IF l.exc # NoExc THEN l
    ELSE IF Cardinality(l.ids) = 0 THEN Returned(IF_Set, l.log)
    ELSE IF r.exc # NoExc THEN Raised(r.exc, l.log \o r.log)
    ELSE IF Cardinality(r.ids) = 0 THEN Returned(IF_Set, l.log \o r.log)
    ELSE Returned(IF_difference(l.ids, r.ids), l.log \o r.log)

Difference_apply(l, r) ==
    IF l.exc # NoExc THEN l
    ELSE IF Cardinality(l.ids) = 0 THEN Returned(IF_Set, l.log)
    ELSE IF r.exc # NoExc THEN Raised(r.exc, l.log \o r.log)
    ELSE IF Cardinality(r.ids) = 0 THEN Returned(l.ids, l.log \o r.log)
    ELSE Returned(IF_difference(l.ids, r.ids), l.log \o r.log)

RECURSIVE apply(_, _, _)
apply(node, cat, path) ==
    CASE node.kind = "Union" ->
           Union_apply(apply(node.left, cat, path \o <<"left">>),
                       apply(node.right, cat, path \o <<"right">>))
      [] node.kind = "Intersection" ->
           Intersection_apply(apply(node.left, cat, path \o <<"left">>),
                              apply(node.right, cat, path \o <<"right">>))
      [] node.kind = "Difference" ->
           Difference_apply(apply(node.left, cat, path \o <<"left">>),
                            apply(node.right, cat, path \o <<"right">>))
      [] OTHER -> Comparator_apply(node, cat, path)

\* ------------------------------------------------------------------------
\* _group_any_and_all
\* ------------------------------------------------------------------------

\* Python's None where visit returns an index name.
None_index == "<None>"

\* Mutant: group building Any for an Intersection and All for a Union.
group_swapped(node, index_name, values) ==
    IF Len(values) > 1
    THEN IF node.kind = "Intersection" THEN Any(index_name, values)
         ELSE IF node.kind = "Union" THEN All(index_name, values)
         ELSE node
    ELSE node

group(node, index_name, values) ==
    IF Len(values) > 1
    THEN IF node.kind = "Intersection" THEN All(index_name, values)
         ELSE IF node.kind = "Union" THEN Any(index_name, values)
         ELSE node
    ELSE node

Visited(index, values, node) ==
    [index |-> index, values |-> values, node |-> node]

\* Mutant: visit taking a None index for "no index yet" (`if left_index and
\* right_index and left_index != right_index`), so that the values of the
\* other side travel upward.
RECURSIVE visit_none_is_neutral(_)
visit_none_is_neutral(node) ==
    IF isinstance_Operator(node)
    THEN LET l == visit_none_is_neutral(node.left)
             r == visit_none_is_neutral(node.right)
         IN  IF l.index # None_index /\ r.index # None_index
                /\ l.index # r.index
             THEN Visited(None_index, <<>>,
                          Operator(node.kind,
                                   group(l.node, l.index, l.values),
                                   group(r.node, r.index, r.values)))
             ELSE Visited(IF l.index # None_index THEN l.index ELSE r.index,
                          l.values \o r.values,
                          Operator(node.kind, l.node, r.node))
    ELSE IF node.kind = "Eq"
    THEN Visited(node.index_name, <<node.value>>, node)
    ELSE Visited(None_index, <<>>, node)

\* visit(node): the index name and values it returns, and node as the
\* assignments to node.left / node.right beneath it have left it.
RECURSIVE visit(_)
visit(node) ==
    IF isinstance_Operator(node)
    THEN LET l == visit(node.left)
             r == visit(node.right)
         IN  IF l.index # r.index
             THEN Visited(None_index, <<>>,
                          Operator(node.kind,
                                   group(l.node, l.index, l.values),
                                   group(r.node, r.index, r.values)))
             ELSE Visited(l.index, l.values \o r.values,
                          Operator(node.kind, l.node, r.node))
    ELSE IF node.kind = "Eq"
    THEN Visited(node.index_name, <<node.value>>, node)
    ELSE Visited(None_index, <<>>, node)

\* The value _group_any_and_all(t) returns.
_group_any_and_all(t) ==
    LET v == visit(t) IN group(v.node, v.index, v.values)

\* ------------------------------------------------------------------------
\* _AstQuery: compiling a syntax tree
\*   syntax nodes: [type |-> "Num", n], [type |-> "Str", s],
\*     [type |-> "Name", id], [type |-> "Compare", left, op, right],
\*     [type |-> "BinOp", left, op, right], [type |-> "BoolOp", op, values]
\*   what a node compiles to: a query node, or [kind |-> "Num", n],
\*     [kind |-> "Str", s], [kind |-> "Name", id] (the Name node itself)
\* ------------------------------------------------------------------------

BadExpression == "ValueError: Bad expression"

Unhandled == "ValueError: Unhandled expression element"

IndexNameError == "ValueError: Index name must be a name"

NameError == "NameError"

Value(v) == [exc |-> NoExc, value |-> v]

Failure(exc) == [exc |-> exc, value |-> [kind |-> "None"]]

\* process_Eq ... process_In: the comparator class of a comparison operator.
CompareClass ==
    [op \in {"Eq", "NotEq", "Lt", "LtE", "Gt", "GtE", "In"} |->
        CASE op = "LtE" -> "Le"
          [] op = "GtE" -> "Ge"
          [] op = "In" -> "Contains"
          [] OTHER -> op]

\* process_BitOr, process_BitAnd, process_Sub: the class of a binary operator.
BinClass ==
    [op \in {"BitOr", "BitAnd", "Sub"} |->
        CASE op = "BitOr" -> "Union"
          [] op = "BitAnd" -> "Intersection"
          [] OTHER -> "Difference"]

\* process_Or, process_And: the class of a boolean operator.
BoolClass ==
    [op \in {"Or", "And"} |-> IF op = "Or" THEN "Union" ELSE "Intersection"]

_index_name(node) ==
    IF node.kind = "Name" THEN Value(node.id) ELSE Failure(IndexNameError)

_value(node, names) ==
    IF node.kind = "Name"
    THEN IF node.id \in DOMAIN names
         THEN Value(names[node.id])
         ELSE Failure(NameError)
    ELSE IF node.kind = "Num" THEN Value(node.n)
    ELSE IF node.kind = "Str" THEN Value(node.s)
    ELSE Value(node)

process_Compare(operand1, operator, operand2, names) ==
    LET index == IF operator = "Contains"
                 THEN _index_name(operand2) ELSE _index_name(operand1)
        value == IF operator = "Contains"
                 THEN _value(operand1, names) ELSE _value(operand2, names)
    IN  IF index.exc # NoExc THEN index
        ELSE IF value.exc # NoExc THEN value
        ELSE Value(Comparator(operator, index.value, value.value))

process_BinOp(left, operator, right) ==
    IF ~isinstance_Query(left) THEN Failure(BadExpression)
    ELSE IF ~isinstance_Query(right) THEN Failure(BadExpression)
    ELSE Value(Operator(operator, left, right))

\* The while loop of process_BoolOp: op = operator(op, children.pop(0)).
RECURSIVE BoolOp_loop(_, _, _)
BoolOp_loop(operator, op, children) ==
    IF children = <<>>
    THEN op
    ELSE BoolOp_loop(operator, Operator(operator, op, Head(children)),
                     Tail(children))

\* Mutant: process_BoolOp popping its operands off the end of the list
\* (children.pop() for children.pop(0)).
RECURSIVE BoolOp_loop_from_end(_, _, _)
BoolOp_loop_from_end(operator, op, children) ==
    IF children = <<>>
    THEN op
    ELSE BoolOp_loop_from_end(
             operator,
             Operator(operator, op, children[Len(children)]),
             SubSeq(children, 1, Len(children) - 1))

process_BoolOp_pop_from_end(operator, children) ==
    IF \E n \in 1..Len(children) : ~isinstance_Query(children[n])
    THEN Failure(BadExpression)
    ELSE Value(BoolOp_loop_from_end(
                   operator,
                   Operator(operator, children[Len(children)],
                            children[Len(children) - 1]),
                   SubSeq(children, 1, Len(children) - 2)))

\* process_BoolOp, children being the operands once the operator is popped.
process_BoolOp(operator, children) ==
    IF \E n \in 1..Len(children) : ~isinstance_Query(children[n])
    THEN Failure(BadExpression)
    ELSE Value(BoolOp_loop(operator,
                           Operator(operator, children[1], children[2]),
                           SubSeq(children, 3, Len(children))))

\* walk's visit: the children first, in order, then the node's processor.
\* visit_all is the list comprehension over a node's operand children: the
\* values they compile to, or the first exception.
RECURSIVE ast_visit(_, _)
RECURSIVE visit_all(_, _)
visit_all(nodes, names) ==
    IF nodes = <<>>
    THEN Value(<<>>)
    ELSE LET first == ast_visit(Head(nodes), names)
         IN  IF first.exc # NoExc THEN first
             ELSE LET rest == visit_all(Tail(nodes), names)
                  IN  IF rest.exc # NoExc THEN rest
                      ELSE Value(<<first.value>> \o rest.value)

ast_visit(node, names) ==
    CASE node.type = "Num" -> Value([kind |-> "Num", n |-> node.n])
      [] node.type = "Str" -> Value([kind |-> "Str", s |-> node.s])
      [] node.type = "Name" -> Value([kind |-> "Name", id |-> node.id])
      [] node.type = "Compare" ->
           LET l == ast_visit(node.left, names)
               r == ast_visit(node.right, names)
           IN  IF l.exc # NoExc THEN l
               ELSE IF node.op \notin DOMAIN CompareClass
               THEN Failure(Unhandled)
               ELSE IF r.exc # NoExc THEN r
               ELSE process_Compare(l.value, CompareClass[node.op], r.value,
                                    names)
      [] node.type = "BinOp" ->
           LET l == ast_visit(node.left, names)
               r == ast_visit(node.right, names)
           IN  IF l.exc # NoExc THEN l
               ELSE IF node.op \notin DOMAIN BinClass THEN Failure(Unhandled)
               ELSE IF r.exc # NoExc THEN r
               ELSE process_BinOp(l.value, BinClass[node.op], r.value)
      [] node.type = "BoolOp" ->
           LET children == visit_all(node.values, names)
           IN  IF children.exc # NoExc THEN children
               ELSE process_BoolOp(BoolClass[node.op], children.value)
      [] OTHER -> Failure(Unhandled)

\* ------------------------------------------------------------------------
\* State
\* ------------------------------------------------------------------------

VARIABLES
    catalog,    \* the catalog queries are applied to
    tree,       \* the query tree under construction / evaluation
    out,        \* the outcome of the last tree.apply(catalog), or NotApplied
    phase,      \* "new" before SearchQuery.__init__ has returned, then "ready"
    _results,   \* SearchQuery._results: None, or a result set
    last,       \* the last SearchQuery call: method, argument, results before
                \* it, the exception that left it, the index lookups it made
    removed,    \* the ids that And / Not calls so far took out of results
    fold,       \* the seed's ids folded, call by call, with the set operation
                \* of each call whose argument evaluates
    source,     \* the tree as it was before _group_any_and_all rewrote it
    optimized,  \* what the successive _group_any_and_all calls returned,
                \* each applied to what the one before it returned
    expr,       \* the syntax tree handed to _AstQuery.walk
    compiled    \* what walk made of it: a value or an exception

searchVars == <<phase, _results, last, removed, fold>>

optimizeVars == <<source, optimized>>

compileVars == <<expr, compiled>>

vars == <<catalog, tree, out, searchVars, optimizeVars, compileVars>>

NotApplied == [exc |-> "NotApplied", ids |-> {}, log |-> <<>>]

\* Python's None where a query is expected.
NoQuery == [kind |-> "None"]

None_results == [isNone |-> TRUE, ids |-> {}]

Some_results(ids) == [isNone |-> FALSE, ids |-> ids]

NoExpr == [type |-> "None"]

NotCompiled == [exc |-> "NotCompiled", value |-> [kind |-> "None"]]

NoCall ==
    [op |-> "none", query |-> NoQuery, before |-> {}, exc |-> NoExc,
     log |-> <<>>]

\* ------------------------------------------------------------------------
\* Building and applying query trees
\* ------------------------------------------------------------------------

\* Query.__and__ / __or__ / __sub__ with a Query as right operand.
Query_combine(kind, left, right) == Operator(kind, left, right)

\* tree = tree & right, tree | right or tree - right, while the tree is
\* neither applied nor optimized yet.
Combine(kind, right) ==
    /\ out = NotApplied
    /\ optimized = <<>>
    /\ tree' = Query_combine(kind, tree, right)
    /\ UNCHANGED <<catalog, out, searchVars, optimizeVars, compileVars>>

\* The right operands, from the family operands, that keep the tree within
\* budget comparators.
Operands(operands, budget) ==
    IF LeafCount(tree) < budget
    THEN operands[budget - LeafCount(tree)]
    ELSE {}

ApplyLeaves == {Eq("i", 1), Eq("i", 2), Eq("i", 5), Eq("k", 1)}

ApplyOperands == [n \in 1..(MaxLeaves - 1) |-> TreesUpTo(n, ApplyLeaves)]

InitApply ==
    /\ catalog = Catalog
    /\ tree \in ApplyLeaves
    /\ out = NotApplied
    /\ phase = "new"
    /\ _results = None_results
    /\ last = NoCall
    /\ removed = {}
    /\ fold = {}
    /\ source = NoQuery
    /\ optimized = <<>>
    /\ expr = NoExpr
    /\ compiled = NotCompiled

\* tree.apply(cat): a tree may be applied again, and to another catalog.
Apply(cat) ==
    /\ catalog' = cat
    /\ out' = apply(tree, cat, <<>>)
    /\ UNCHANGED <<tree, searchVars, optimizeVars, compileVars>>

NextApply ==
    \/ \E kind \in OperatorKinds, right \in Operands(ApplyOperands, MaxLeaves) :
          Combine(kind, right)
    \/ \E cat \in Catalogs : Apply(cat)

SpecApply == InitApply /\ [][NextApply]_vars

Applied == out.exc # "NotApplied"

\* The set operation an operator kind stands for.
SetOp(kind, a, b) ==
    CASE kind = "Union" -> a \cup b
      [] kind = "Intersection" -> a \cap b
      [] kind = "Difference" -> a \ b

\* The outcome of applying the node at position p of the tree.
AppliedAt(p) ==
    IF p = <<>> /\ Applied THEN out ELSE apply(Subtree(tree, p), catalog, p)

OperatorPaths(kinds) == { p \in Paths(tree) : Subtree(tree, p).kind \in kinds }

\* C1: for every operator node of an applied tree whose two operands evaluate
\* without error, the ids it evaluates to are the union (Union), the
\* intersection (Intersection) or the difference (Difference) of the ids its
\* operands evaluate to, empty operands included.
C1_SetSemantics ==
    Applied =>
        \A p \in OperatorPaths(OperatorKinds) :
            LET a == AppliedAt(p \o <<"left">>)
                b == AppliedAt(p \o <<"right">>)
                c == AppliedAt(p)
            IN  (a.exc = NoExc /\ b.exc = NoExc) =>
                    /\ c.exc = NoExc
                    /\ c.ids = SetOp(Subtree(tree, p).kind, a.ids, b.ids)

\* A Difference with a non-empty left operand and an Intersection that
\* evaluates to the empty set as right operand has been applied, and
\* returned its left operand's ids.
C1_Witness ==
    /\ Applied
    /\ tree.kind = "Difference"
    /\ AppliedAt(<<"left">>).ids # {}
    /\ tree.right.kind = "Intersection"
    /\ AppliedAt(<<"right">>).exc = NoExc
    /\ AppliedAt(<<"right">>).ids = {}
    /\ out.exc = NoExc
    /\ out.ids = AppliedAt(<<"left">>).ids

\* C2: when the left operand of an Intersection or Difference node, at any
\* depth of an applied tree, evaluates to the empty set, the apply call made
\* no index lookup for any comparator under that node's right operand.
C2_ShortCircuit ==
    Applied =>
        \A p \in OperatorPaths({"Intersection", "Difference"}) :
            LET a == AppliedAt(p \o <<"left">>)
            IN  (a.exc = NoExc /\ a.ids = {}) =>
                    \A n \in 1..Len(out.log) :
                        ~IsPrefix(p \o <<"right">>, out.log[n].path)

\* A nested Intersection whose left operand was looked up and is empty, under
\* a Union whose right operand was then looked up.
C2_Witness ==
    /\ Applied
    /\ tree.kind = "Union"
    /\ tree.left.kind = "Intersection"
    /\ isinstance_Comparator(tree.left.left)
    /\ AppliedAt(<<"left", "left">>).exc = NoExc
    /\ AppliedAt(<<"left", "left">>).ids = {}
    /\ \E n \in 1..Len(out.log) : out.log[n].path = <<"left", "left">>
    /\ \E n \in 1..Len(out.log) : out.log[n].path = <<"right">>
    /\ out.exc = NoExc

\* ------------------------------------------------------------------------
\* Optimizing query trees
\* ------------------------------------------------------------------------

OptimizeLeaves ==
    {Eq("i", 1), Eq("i", 2), Eq("j", 1), Gt("i", 1), Any("i", <<1, 2>>)}

OptimizeOperands ==
    [n \in 1..(MaxLeaves - 1) |-> TreesUpTo(n, OptimizeLeaves)]

\* Trees over these two comparators are built one comparator larger.
DeepLeaves == {Eq("i", 1), Eq("j", 1)}

DeepOperands == [n \in 1..MaxLeaves |-> TreesUpTo(n, DeepLeaves)]

RECURSIVE Leaves(_)
Leaves(node) ==
    IF isinstance_Operator(node)
    THEN Leaves(node.left) \cup Leaves(node.right)
    ELSE {node}

InitOptimize ==
    /\ catalog = Catalog
    /\ tree \in OptimizeLeaves
    /\ out = NotApplied
    /\ phase = "new"
    /\ _results = None_results
    /\ last = NoCall
    /\ removed = {}
    /\ fold = {}
    /\ source = NoQuery
    /\ optimized = <<>>
    /\ expr = NoExpr
    /\ compiled = NotCompiled

\* _group_any_and_all(tree): the call rewrites tree in place.
Optimize ==
    /\ optimized = <<>>
    /\ source' = tree
    /\ tree' = visit(tree).node
    /\ optimized' = <<_group_any_and_all(tree)>>
    /\ UNCHANGED <<catalog, out, searchVars, compileVars>>

\* _group_any_and_all applied to what the first call returned, which is the
\* rewritten tree itself unless the root was replaced by a comparator.
OptimizeAgain ==
    /\ Len(optimized) = 1
    /\ tree' = IF optimized[1] = tree THEN visit(tree).node ELSE tree
    /\ optimized' = Append(optimized, _group_any_and_all(optimized[1]))
    /\ UNCHANGED <<catalog, out, searchVars, source, compileVars>>

NextOptimize ==
    \/ \E kind \in OperatorKinds,
          right \in Operands(OptimizeOperands, MaxLeaves) :
          Combine(kind, right)
    \/ \E kind \in OperatorKinds,
          right \in Operands(DeepOperands, MaxLeaves + 1) :
          Leaves(tree) \subseteq DeepLeaves /\ Combine(kind, right)
    \/ Optimize
    \/ OptimizeAgain

SpecOptimize == InitOptimize /\ [][NextOptimize]_vars

\* C5: _group_any_and_all applied to its own output returns a tree equal to
\* that output.
C5_Idempotent ==
    Len(optimized) = 2 => optimized[2] = optimized[1]

\* The second call ran on an operator tree in which the first call had put a
\* batched comparator.
C5_Witness ==
    /\ Len(optimized) = 2
    /\ isinstance_Operator(source)
    /\ isinstance_Operator(source.left)
    /\ isinstance_Operator(optimized[1])
    /\ optimized[1].left.kind \in {"Any", "All"}
    /\ optimized[1].right.kind = "Eq"
    /\ optimized[1] # source

\* The values of a tree's comparators, left to right.
RECURSIVE LeafValues(_)
LeafValues(node) ==
    IF isinstance_Operator(node)
    THEN LeafValues(node.left) \o LeafValues(node.right)
    ELSE <<node.value>>

\* Whether every operator of the tree is of the given kind and every
\* comparator is an Eq on the given index.
RECURSIVE Pure(_, _, _)
Pure(node, kind, index_name) ==
    IF isinstance_Operator(node)
    THEN /\ node.kind = kind
         /\ Pure(node.left, kind, index_name)
         /\ Pure(node.right, kind, index_name)
    ELSE node.kind = "Eq" /\ node.index_name = index_name

IndexNames == {"i", "j", "k"}

\* C6: for a tree of two or more Eq comparators on one index under
\* Intersection operators only, _group_any_and_all returns All on that index
\* with the comparators' values in left-to-right order; under Union operators
\* only, Any.
C6_PureRunsBatched ==
    Len(optimized) >= 1 =>
        \A index_name \in IndexNames :
            /\ (isinstance_Operator(source)
                  /\ Pure(source, "Intersection", index_name)) =>
                   optimized[1] = All(index_name, LeafValues(source))
            /\ (isinstance_Operator(source)
                  /\ Pure(source, "Union", index_name)) =>
                   optimized[1] = Any(index_name, LeafValues(source))

\* An Intersection whose right operand is an Intersection, over Eq("i", 2),
\* Eq("i", 1), Eq("i", 2) in that order, has become All("i", <<2, 1, 2>>).
C6_Witness ==
    /\ Len(optimized) >= 1
    /\ isinstance_Operator(source)
    /\ Pure(source, "Intersection", "i")
    /\ isinstance_Operator(source.right)
    /\ LeafValues(source) = <<2, 1, 2>>
    /\ optimized[1] = All("i", <<2, 1, 2>>)

\* Whether the tree is a run that the optimizer is to batch: operators of one
\* kind, Intersection or Union, over Eq comparators on one index.
Batchable(node) ==
    \E kind \in {"Intersection", "Union"}, index_name \in IndexNames :
        Pure(node, kind, index_name)

\* Whether new is orig but for batchable subtrees: comparators are as they
\* were, and an operator that is not a batchable run is still that operator.
RECURSIVE Untouched(_, _)
Untouched(orig, new) ==
    IF ~isinstance_Operator(orig) THEN new = orig
    ELSE IF Batchable(orig) THEN TRUE
    ELSE /\ new.kind = orig.kind
         /\ Untouched(orig.left, new.left)
         /\ Untouched(orig.right, new.right)

\* C7: a subtree whose operators are not all of one kind is not replaced by
\* an All or Any comparator, and no value from beneath one operator kind
\* enters a comparator built for another.
C7_MixedKindsUntouched ==
    Len(optimized) >= 1 => Untouched(source, optimized[1])

\* ------------------------------------------------------------------------
\* Compiling boolean syntax nodes
\* ------------------------------------------------------------------------

\* The name table handed to the compiler.
Names == [id \in {"x"} |-> 4]

NumNode(n) == [type |-> "Num", n |-> n]

NameNode(id) == [type |-> "Name", id |-> id]

CompareNode(left, op, right) ==
    [type |-> "Compare", left |-> left, op |-> op, right |-> right]

BoolOpNode(op, values) == [type |-> "BoolOp", op |-> op, values |-> values]

\* The operands of the boolean nodes compiled: comparisons (one of them on
\* an undefined name), a name and a number, which compile to no query, and
\* a nested boolean node.
OperandExprs ==
    {CompareNode(NameNode("i"), "Eq", NumNode(1)),
     CompareNode(NameNode("j"), "GtE", NameNode("x")),
     CompareNode(NumNode(2), "In", NameNode("i")),
     CompareNode(NameNode("i"), "Eq", NameNode("y")),
     NameNode("i"),
     NumNode(1),
     BoolOpNode("Or", <<CompareNode(NameNode("i"), "Eq", NumNode(1)),
                        CompareNode(NameNode("i"), "Eq", NumNode(2))>>)}

InitCompile ==
    /\ catalog = Catalog
    /\ tree = NoQuery
    /\ out = NotApplied
    /\ phase = "new"
    /\ _results = None_results
    /\ last = NoCall
    /\ removed = {}
    /\ fold = {}
    /\ source = NoQuery
    /\ optimized = <<>>
    /\ \E op \in DOMAIN BoolClass, e1 \in OperandExprs, e2 \in OperandExprs :
           expr = BoolOpNode(op, <<e1, e2>>)
    /\ compiled = NotCompiled

\* One more operand in the source text: `... and e`, `... or e`.
AddOperand(e) ==
    /\ compiled = NotCompiled
    /\ Len(expr.values) < MaxOperands
    /\ expr' = BoolOpNode(expr.op, Append(expr.values, e))
    /\ UNCHANGED <<catalog, tree, out, searchVars, optimizeVars, compiled>>

\* _AstQuery.walk(expr).
Compile ==
    /\ compiled = NotCompiled
    /\ compiled' = ast_visit(expr, Names)
    /\ UNCHANGED <<catalog, tree, out, searchVars, optimizeVars, expr>>

NextCompile ==
    \/ \E e \in OperandExprs : AddOperand(e)
    \/ Compile

SpecCompile == InitCompile /\ [][NextCompile]_vars

Compiled == compiled.exc # "NotCompiled"

\* What the operands of expr compile to, each on its own.
OperandValues == [n \in 1..Len(expr.values) |-> ast_visit(expr.values[n], Names)]

\* op(...op(op(v1, v2), v3)..., vn).
RECURSIVE LeftNested(_, _, _)
LeftNested(kind, values, n) ==
    IF n = 1
    THEN values[1]
    ELSE Operator(kind, LeftNested(kind, values, n - 1), values[n])

\* C10: a boolean node whose operands all compiled to query nodes compiles to
\* the left-nested chain of Intersection (and) or Union (or) of them in
\* source order; if some operand compiled to something that is no query node
\* the compile fails with the bad-expression error and gives no tree.
C10_BoolOpLeftFold ==
    (Compiled /\ \A n \in DOMAIN OperandValues : OperandValues[n].exc = NoExc) =>
        LET values == [n \in DOMAIN OperandValues |-> OperandValues[n].value]
        IN  IF \A n \in DOMAIN values : isinstance_Query(values[n])
            THEN /\ compiled.exc = NoExc
                 /\ compiled.value =
                        LeftNested(IF expr.op = "And"
                                   THEN "Intersection" ELSE "Union",
                                   values, Len(values))
            ELSE /\ compiled.exc = BadExpression
                 /\ ~isinstance_Query(compiled.value)

\* `i == 1 and 2 in i and j >= x` has compiled to
\* Intersection(Intersection(Eq(i, 1), Contains(i, 2)), Ge(j, 4)).
C10_Witness ==
    /\ Compiled
    /\ expr.op = "And"
    /\ Len(expr.values) = 3
    /\ compiled.exc = NoExc
    /\ compiled.value =
           Intersection(Intersection(Eq("i", 1),
                                     Comparator("Contains", "i", 2)),
                        Comparator("Ge", "j", 4))

\* ------------------------------------------------------------------------
\* SearchQuery
\*   Each method is an operator from the object's _results, the catalog and
\*   the argument to: the new _results, the exception that left the call
\*   (NoExc when it returned) and the index lookups it made.
\* ------------------------------------------------------------------------

Call(results, exc, log) == [results |-> results, exc |-> exc, log |-> log]

\* The results property's getter.
results_get(r) == IF r.isNone THEN IF_Set ELSE r.ids

\* Truth value of a result set (`if res:`).
Truthy(ids) == Cardinality(ids) # 0

SearchQuery_init(cat, query) ==
    IF query = NoQuery
    THEN Call(None_results, NoExc, <<>>)
    ELSE LET res == apply(query, cat, <<>>)
         IN  IF res.exc # NoExc
             THEN Call(None_results, res.exc, res.log)
             ELSE Call(Some_results(res.ids), NoExc, res.log)

\* Mutant: Or seeding empty results but never widening non-empty ones.
SearchQuery_Or_seed_only(r, cat, query) ==
    LET res == apply(query, cat, <<>>)
    IN  IF res.exc # NoExc THEN Call(r, res.exc, res.log)
        ELSE IF Truthy(res.ids) /\ Cardinality(results_get(r)) = 0
        THEN Call(Some_results(res.ids), NoExc, res.log)
        ELSE Call(r, NoExc, res.log)

SearchQuery_Or(r, cat, query) ==
    LET res == apply(query, cat, <<>>)
    IN  IF res.exc # NoExc THEN Call(r, res.exc, res.log)
        ELSE IF Truthy(res.ids)
        THEN IF Cardinality(results_get(r)) = 0
             THEN Call(Some_results(res.ids), NoExc, res.log)
             ELSE Call(Some_results(IF_weightedUnion(results_get(r), res.ids)),
                       NoExc, res.log)
        ELSE Call(r, NoExc, res.log)

\* Mutant: And without its else branch, so that an empty argument leaves
\* results as they are.
SearchQuery_And_no_else(r, cat, query) ==
    IF Cardinality(results_get(r)) = 0
    THEN Call(r, NoExc, <<>>)
    ELSE LET res == apply(query, cat, <<>>)
         IN  IF res.exc # NoExc THEN Call(r, res.exc, res.log)
             ELSE IF Truthy(res.ids)
             THEN Call(Some_results(
                           IF_weightedIntersection(results_get(r), res.ids)),
                       NoExc, res.log)
             ELSE Call(r, NoExc, res.log)

SearchQuery_And(r, cat, query) ==
    IF Cardinality(results_get(r)) = 0
    THEN Call(r, NoExc, <<>>)
    ELSE LET res == apply(query, cat, <<>>)
         IN  IF res.exc # NoExc THEN Call(r, res.exc, res.log)
             ELSE IF Truthy(res.ids)
             THEN Call(Some_results(
                           IF_weightedIntersection(results_get(r), res.ids)),
                       NoExc, res.log)
             ELSE Call(Some_results(IF_Set), NoExc, res.log)

\* Mutant: Not without its early return on empty results.
SearchQuery_Not_no_early_return(r, cat, query) ==
    LET res == apply(query, cat, <<>>)
    IN  IF res.exc # NoExc THEN Call(r, res.exc, res.log)
        ELSE IF Truthy(res.ids)
        THEN Call(Some_results(IF_difference(results_get(r), res.ids)),
                  NoExc, res.log)
        ELSE Call(r, NoExc, res.log)

SearchQuery_Not(r, cat, query) ==
    IF Cardinality(results_get(r)) = 0
    THEN Call(r, NoExc, <<>>)
    ELSE LET res == apply(query, cat, <<>>)
         IN  IF res.exc # NoExc THEN Call(r, res.exc, res.log)
             ELSE IF Truthy(res.ids)
             THEN Call(Some_results(IF_difference(results_get(r), res.ids)),
                       NoExc, res.log)
             ELSE Call(r, NoExc, res.log)

\* The queries handed to a SearchQuery: single comparators, and two-comparator
\* trees over an empty and an unknown-index comparator.
SearchLeaves ==
    {Eq("i", 1), Eq("i", 2), Eq("i", 3), Eq("i", 4), Eq("i", 5), Eq("k", 1)}

SearchQueries ==
    SearchLeaves \cup TreesWith(2, {Eq("i", 5), Eq("k", 1)})

Init ==
    /\ catalog \in Catalogs
    /\ tree = NoQuery
    /\ out = NotApplied
    /\ phase = "new"
    /\ _results = None_results
    /\ last = NoCall
    /\ removed = {}
    /\ fold = {}
    /\ source = NoQuery
    /\ optimized = <<>>
    /\ expr = NoExpr
    /\ compiled = NotCompiled

Called(op, query, c) ==
    [op |-> op, query |-> query, before |-> results_get(_results),
     exc |-> c.exc, log |-> c.log]

\* The set operation of a SearchQuery method.
MethodKind(op) ==
    CASE op = "Or" -> "Union"
      [] op = "And" -> "Intersection"
      [] op = "Not" -> "Difference"

\* The fold after a call of method op with the given argument: the set
\* operation applied when the argument evaluates, nothing otherwise.
Folded(op, query) ==
    LET q == apply(query, catalog, <<>>)
    IN  IF q.exc = NoExc THEN SetOp(MethodKind(op), fold, q.ids) ELSE fold

\* SearchQuery(catalog, query): an exception leaves no object behind.
New(query) ==
    /\ phase = "new"
    /\ LET c == SearchQuery_init(catalog, query)
       IN  /\ _results' = c.results
           /\ last' = Called("init", query, c)
           /\ phase' = IF c.exc = NoExc THEN "ready" ELSE "new"
           /\ fold' = results_get(c.results)
    /\ UNCHANGED <<catalog, tree, out, removed, optimizeVars, compileVars>>

Or(query) ==
    /\ phase = "ready"
    /\ LET c == SearchQuery_Or(_results, catalog, query)
       IN  /\ _results' = c.results
           /\ last' = Called("Or", query, c)
    /\ fold' = Folded("Or", query)
    /\ UNCHANGED <<catalog, tree, out, phase, removed, optimizeVars, compileVars>>

And(query) ==
    /\ phase = "ready"
    /\ LET c == SearchQuery_And(_results, catalog, query)
       IN  /\ _results' = c.results
           /\ last' = Called("And", query, c)
           /\ removed' = removed \cup
                           (results_get(_results) \ results_get(c.results))
    /\ fold' = Folded("And", query)
    /\ UNCHANGED <<catalog, tree, out, phase, optimizeVars, compileVars>>

Not(query) ==
    /\ phase = "ready"
    /\ LET c == SearchQuery_Not(_results, catalog, query)
       IN  /\ _results' = c.results
           /\ last' = Called("Not", query, c)
           /\ removed' = removed \cup
                           (results_get(_results) \ results_get(c.results))
    /\ fold' = Folded("Not", query)
    /\ UNCHANGED <<catalog, tree, out, phase, optimizeVars, compileVars>>

Next ==
    \/ \E query \in SearchQueries \cup {NoQuery} : New(query)
    \/ \E query \in SearchQueries : Or(query)
    \/ \E query \in SearchQueries : And(query)
    \/ \E query \in SearchQueries : Not(query)

Spec == Init /\ [][Next]_vars

results == results_get(_results)

ChainCall == last.op \in {"Or", "And", "Not"}

\* What the argument of the last call evaluates to.
LastArgument == apply(last.query, catalog, <<>>)

\* C3: a chain call whose argument evaluates to the ids Q, on results with the
\* ids R, returns and leaves R \cap Q (And), R \cup Q (Or) or R \ Q (Not) as
\* results; so results always are the left-to-right fold of those set
\* operations from the seed.
C3_ChainSetSemantics ==
    /\ (ChainCall /\ LastArgument.exc = NoExc) =>
           /\ last.exc = NoExc
           /\ results = SetOp(MethodKind(last.op), last.before, LastArgument.ids)
    /\ results = fold

\* The spec's chain {1,2,3}.And({2,3,4}).Or({5}).Not({3}) has arrived at {2,5}.
C3_Witness ==
    /\ last.op = "Not"
    /\ last.before = {2, 3, 5}
    /\ LastArgument.ids = {3}
    /\ results = {2, 5}
    /\ fold = {2, 5}
    /\ removed = {1, 3}

\* C4: on empty results And and Not make no index lookup, return and leave
\* results empty; Or on empty results does look its argument up.
C4_EmptyShortCircuit ==
    /\ (last.op \in {"And", "Not"} /\ last.before = {}) =>
           /\ last.log = <<>>
           /\ last.exc = NoExc
           /\ results = {}
    /\ (last.op = "Or" /\ last.before = {}) => last.log # <<>>

RECURSIVE HasUnknownIndex(_, _)
HasUnknownIndex(node, cat) ==
    IF isinstance_Operator(node)
    THEN HasUnknownIndex(node.left, cat) \/ HasUnknownIndex(node.right, cat)
    ELSE node.index_name \notin DOMAIN cat

\* And was called, with an argument that names an unknown index, on results
\* that an earlier And or Not had emptied.
C4_Witness ==
    /\ last.op = "And"
    /\ last.before = {}
    /\ removed # {}
    /\ HasUnknownIndex(last.query, catalog)
    /\ last.exc = NoExc
    /\ results = {}

\* C8 as claimed: a constructor or chain call whose query holds a comparator
\* on an unknown index fails with the unknown-index error.
C8_UnknownIndexAlwaysFails ==
    (last.op \in {"init", "Or", "And", "Not"} /\ last.query # NoQuery
        /\ HasUnknownIndex(last.query, catalog)) => last.exc = KeyError

\* The ids a tree stands for as plain set algebra, an unknown index standing
\* for no document.
RECURSIVE Ids(_, _)
Ids(node, cat) ==
    IF isinstance_Operator(node)
    THEN SetOp(node.kind, Ids(node.left, cat), Ids(node.right, cat))
    ELSE IF node.index_name \in DOMAIN cat
         THEN Index_apply(cat[node.index_name], node.kind, node.value)
         ELSE {}

\* Whether some comparator on an unknown index is outside every right
\* operand that an empty left operand of an Intersection or Difference skips.
RECURSIVE ReachesUnknownIndex(_, _)
ReachesUnknownIndex(node, cat) ==
    IF ~isinstance_Operator(node)
    THEN node.index_name \notin DOMAIN cat
    ELSE \/ ReachesUnknownIndex(node.left, cat)
         \/ /\ node.kind = "Union" \/ Ids(node.left, cat) # {}
            /\ ReachesUnknownIndex(node.right, cat)

\* C8 amended: a constructor or chain call fails with the unknown-index error
\* exactly when it looks an unknown index up, which it does unless the
\* comparator is skipped: under the right operand of an Intersection or
\* Difference whose left operand is empty, or in the argument of And / Not
\* on empty results. Then the call returns normally.
C8_UnknownIndexFailsWhenLookedUp ==
    (last.op \in {"init", "Or", "And", "Not"} /\ last.query # NoQuery) =>
        LET lookedUp == \E n \in 1..Len(last.log) :
                            last.log[n].index_name \notin DOMAIN catalog
            skipped == last.op \in {"And", "Not"} /\ last.before = {}
        IN  /\ lookedUp <=> last.exc = KeyError
            /\ lookedUp <=>
                   (~skipped /\ ReachesUnknownIndex(last.query, catalog))
            /\ last.exc = KeyError => results = last.before

\* Or was called on non-empty results with a Union whose left operand is
\* empty and whose right operand names an unknown index: the call failed.
C8_Witness ==
    /\ last.op = "Or"
    /\ last.query = Union(Eq("i", 5), Eq("k", 1))
    /\ last.before # {}
    /\ Len(last.log) = 2
    /\ last.exc = KeyError
    /\ results = last.before

\* C9: after an Or call that returned, every id that an earlier And or Not
\* had removed and that the Or's argument evaluates to is in results.
C9_OrForgetsExclusions ==
    (last.op = "Or" /\ last.exc = NoExc) =>
        \A d \in removed \cap LastArgument.ids : d \in results

\* An Or call brought back an id that was removed earlier and was not in
\* results when Or was called.
C9_Witness ==
    /\ last.op = "Or"
    /\ last.exc = NoExc
    /\ \E d \in removed \cap LastArgument.ids :
           d \notin last.before /\ d \in results

====
